---- MODULE Spec2Model ----
(***************************************************************************)
(* z-string: the ECMAScript String API over UTF-8 text, as seen through    *)
(* the C interface (include/zstring.h) and the C++ RAII wrapper            *)
(* (include/zstring.hpp).                                                  *)
(*                                                                         *)
(* An input string (std::string, const char* ) is a sequence of code       *)
(* points; 0 is the C terminator.  A string produced by an operation is    *)
(* represented by its UTF-16 code units, the view in which every index,    *)
(* length and result of the API is defined.  The engine behind the C       *)
(* interface is not part of the headers: the zstring_* operators follow    *)
(* the documented contract of each declaration; the String_* operators     *)
(* are the wrapper's methods.  Allocation failure (OUT_OF_MEMORY) is not   *)
(* modelled.                                                               *)
(*                                                                         *)
(* Spec: one String and the calls of its const methods.  Lifecycle: the    *)
(* construction, move and destruction of Strings and the ZString handles   *)
(* they hold.                                                              *)
(***************************************************************************)
EXTENDS Integers, Sequences, FiniteSets, TLC

VARIABLES handle_, args, call, ret, heap, objects, core, last

vars == <<handle_, args, call, ret, heap, objects, core, last>>

(* ------------------------------ bounds --------------------------------- *)

\* String objects and ZString handles in a run of constructions and moves
MaxObjects == 3
MaxHandles == 3
\* longest text a String is constructed from
MaxLen == 3
\* width of size_t, scaled down
SizeBits == 4
\* width of int64_t, scaled down
IntBits == 8

MaxArgLen == MaxLen - 1
SIZE_MAX == 2^SizeBits - 1
INT64_MAX == 2^(IntBits - 1) - 1

\* code points of the texts: NUL, 'a', 'b', U+1F600 (outside the BMP)
Chars == {0, 97, 98, 128512}

RECURSIVE SeqsUpTo(_, _)
SeqsUpTo(S, n) ==
    IF n = 0 THEN {<<>>}
    ELSE LET shorter == SeqsUpTo(S, n - 1)
         IN  shorter \cup {Append(s, c) : s \in shorter, c \in S}

StdStrings == SeqsUpTo(Chars, MaxLen)
ArgStrings == SeqsUpTo(Chars, MaxArgLen)
\* a text of MaxLen code points has up to 2 * MaxLen units
Indexes == (0 - (2 * MaxLen + 1)) .. (2 * MaxLen + 1)

(* ------------------------------ helpers -------------------------------- *)

Min(a, b) == IF a < b THEN a ELSE b
Max(a, b) == IF a > b THEN a ELSE b

\* an optional value: a pointer that may be NULL, a std::optional
None == <<>>
Some(x) == <<x>>

\* the units of u in [from, to), 0-based
Sub(u, from, to) == SubSeq(u, from + 1, to)

RECURSIVE Flatten(_)
Flatten(ss) == IF ss = <<>> THEN <<>> ELSE Head(ss) \o Flatten(Tail(ss))

(* --------------------------- error codes -------------------------------- *)

ZSTRING_OK == 0
ZSTRING_ERROR_OUT_OF_MEMORY == 1
ZSTRING_ERROR_INVALID_UTF8 == 2
ZSTRING_ERROR_INDEX_OUT_OF_BOUNDS == 3
ZSTRING_ERROR_INVALID_ARGUMENT == 4
ZSTRING_ERROR_REGEX_COMPILE == 5
ZSTRING_ERROR_REGEX_MATCH == 6

(* ----------------------- C and C++ conversions -------------------------- *)

\* a C string ends at the first NUL
RECURSIVE UntilNul(_)
UntilNul(s) ==
    IF s = <<>> \/ Head(s) = 0 THEN <<>> ELSE <<Head(s)>> \o UntilNul(Tail(s))

\* std::string::c_str() read as a const char*
c_str(str) == UntilNul(str)

\* std::string(const char* )
std_string(p) == UntilNul(p)

\* an int argument arriving in a size_t parameter
size_t(n) == n % (2^SizeBits)

(* ------------------------- UTF-16 view ---------------------------------- *)

\* 1 unit up to U+FFFF, a surrogate pair above
Utf16Of(cp) ==
    IF cp > 65535
    THEN <<55296 + ((cp - 65536) \div 1024), 56320 + ((cp - 65536) % 1024)>>
    ELSE <<cp>>

Utf16(cps) == Flatten([i \in 1..Len(cps) |-> Utf16Of(cps[i])])

IsHigh(u) == u >= 55296 /\ u <= 56319
IsLow(u) == u >= 56320 /\ u <= 57343

(* ------------------------- core: strings -------------------------------- *)

\* StringCore: the text and its cached UTF-16 length
zstring_init(str) ==
    [err |-> ZSTRING_OK,
     out |-> Some([bytes |-> str, utf16_length |-> Len(Utf16(str))])]

zstring_length(zstr) == zstr.utf16_length

zstring_bytes(zstr) == zstr.bytes

Units(zstr) == Utf16(zstr.bytes)

(* ------------------------- core: character access ----------------------- *)

zstring_char_at(zstr, index) ==
    IF index < zstring_length(zstr)
    THEN [err |-> ZSTRING_OK, out |-> Some(<<Units(zstr)[index + 1]>>)]
    ELSE [err |-> ZSTRING_ERROR_INDEX_OUT_OF_BOUNDS, out |-> None]

zstring_at(zstr, index) ==
    LET len == zstring_length(zstr)
        k == IF index < 0 THEN len + index ELSE index
    IN  IF k >= 0 /\ k < len
        THEN [err |-> ZSTRING_OK, out |-> Some(<<Units(zstr)[k + 1]>>)]
        ELSE [err |-> ZSTRING_OK, out |-> None]

zstring_char_code_at(zstr, index) ==
    IF index < zstring_length(zstr)
    THEN [err |-> ZSTRING_OK, out |-> Units(zstr)[index + 1]]
    ELSE [err |-> ZSTRING_ERROR_INDEX_OUT_OF_BOUNDS, out |-> 0]

zstring_code_point_at(zstr, index) ==
    LET u == Units(zstr)
        len == zstring_length(zstr)
    IN  IF index >= len
        THEN [err |-> ZSTRING_ERROR_INDEX_OUT_OF_BOUNDS, out |-> 0]
        ELSE IF IsHigh(u[index + 1]) /\ index + 1 < len /\ IsLow(u[index + 2])
        THEN [err |-> ZSTRING_OK,
              out |-> 65536 + (u[index + 1] - 55296) * 1024 + (u[index + 2] - 56320)]
        ELSE [err |-> ZSTRING_OK, out |-> u[index + 1]]

(* ------------------------- core: search --------------------------------- *)

\* x occurs in u at unit index i
OccursAt(u, x, i) ==
    i >= 0 /\ i + Len(x) <= Len(u) /\ SubSeq(u, i + 1, i + Len(x)) = x

\* a start position: negative is 0, beyond the length is the length
ClampPosition(position, len) == Min(Max(position, 0), len)

\* an end position: -1 is the end; else as a start position
ClampEnd(position, len) ==
    IF position = -1 THEN len ELSE ClampPosition(position, len)

SetMin(S) == CHOOSE m \in S : \A k \in S : m <= k
SetMax(S) == CHOOSE m \in S : \A k \in S : m >= k

zstring_index_of(zstr, search_str, position) ==
    LET u == Units(zstr)
        x == Utf16(search_str)
        p == ClampPosition(position, Len(u))
        found == {i \in p..Len(u) : OccursAt(u, x, i)}
    IN  IF found = {} THEN -1 ELSE SetMin(found)

zstring_last_index_of(zstr, search_str, position) ==
    LET u == Units(zstr)
        x == Utf16(search_str)
        p == ClampEnd(position, Len(u))
        found == {i \in 0..p : OccursAt(u, x, i)}
    IN  IF found = {} THEN -1 ELSE SetMax(found)

zstring_includes(zstr, search_str, position) ==
    zstring_index_of(zstr, search_str, position) # -1

zstring_starts_with(zstr, search_str, position) ==
    LET u == Units(zstr)
    IN  OccursAt(u, Utf16(search_str), ClampPosition(position, Len(u)))

zstring_ends_with(zstr, search_str, length) ==
    LET u == Units(zstr)
        x == Utf16(search_str)
    IN  OccursAt(u, x, ClampEnd(length, Len(u)) - Len(x))

(* ------------------------- core: transform ------------------------------ *)

\* a slice argument: negative counts from the end, beyond the length is the length
SliceIndex(v, len) == IF v < 0 THEN Max(len + v, 0) ELSE Min(v, len)

zstring_slice(zstr, start, end) ==
    LET u == Units(zstr)
        from == SliceIndex(start, Len(u))
        to == SliceIndex(end, Len(u))
    IN  [err |-> ZSTRING_OK,
         out |-> Some(IF from >= to THEN <<>> ELSE Sub(u, from, to))]

RepeatUnits(u, count) == [i \in 1..(Len(u) * count) |-> u[((i - 1) % Len(u)) + 1]]

zstring_repeat(zstr, count) ==
    LET u == Units(zstr)
    IN  IF Len(u) * count > SIZE_MAX
        THEN [err |-> ZSTRING_ERROR_INVALID_ARGUMENT, out |-> None]
        ELSE [err |-> ZSTRING_OK, out |-> Some(RepeatUnits(u, count))]

\* substring: each bound clamped to the length, the two swapped if start > end
zstring_substring(zstr, start, end) ==
    LET u == Units(zstr)
        a == Min(start, Len(u))
        b == Min(end, Len(u))
    IN  [err |-> ZSTRING_OK, out |-> Some(Sub(u, Min(a, b), Max(a, b)))]

\* concat: the strings appended in order
zstring_concat(zstr, strings, count) ==
    [err |-> ZSTRING_OK,
     out |-> Some(Units(zstr)
                  \o Flatten([i \in 1..count |-> Utf16(strings[i])]))]

(* ------------------------- core: trim, case, normalize, compare --------- *)

\* The Unicode tables are given for the code points the texts of the model
\* are made of.

\* ECMAScript white space and line terminators
WhiteSpace == {9, 10, 11, 12, 13, 32, 160, 5760, 8232, 8233, 8239, 8287,
               12288, 65279} \cup (8192..8202)

TrimmedFrom(u) ==
    LET kept == {i \in 1..Len(u) : u[i] \notin WhiteSpace}
    IN  IF kept = {} THEN Len(u) + 1 ELSE SetMin(kept)

TrimmedTo(u) ==
    LET kept == {i \in 1..Len(u) : u[i] \notin WhiteSpace}
    IN  IF kept = {} THEN 0 ELSE SetMax(kept)

zstring_trim(zstr) ==
    LET u == Units(zstr)
    IN  [err |-> ZSTRING_OK, out |-> Some(SubSeq(u, TrimmedFrom(u), TrimmedTo(u)))]

zstring_trim_start(zstr) ==
    LET u == Units(zstr)
    IN  [err |-> ZSTRING_OK, out |-> Some(SubSeq(u, TrimmedFrom(u), Len(u)))]

zstring_trim_end(zstr) ==
    LET u == Units(zstr)
    IN  [err |-> ZSTRING_OK, out |-> Some(SubSeq(u, 1, TrimmedTo(u)))]

\* default case mapping of a code point (Basic Latin letters)
LowerOf(cp) == IF cp >= 65 /\ cp <= 90 THEN cp + 32 ELSE cp
UpperOf(cp) == IF cp >= 97 /\ cp <= 122 THEN cp - 32 ELSE cp

zstring_to_lower_case(zstr) ==
    LET b == zstring_bytes(zstr)
    IN  [err |-> ZSTRING_OK, out |-> Some(Utf16([i \in 1..Len(b) |-> LowerOf(b[i])]))]

zstring_to_upper_case(zstr) ==
    LET b == zstring_bytes(zstr)
    IN  [err |-> ZSTRING_OK, out |-> Some(Utf16([i \in 1..Len(b) |-> UpperOf(b[i])]))]

\* "NFC", "NFD", "NFKC", "NFKD" as code points
NormalizationForms ==
    {<<78, 70, 67>>, <<78, 70, 68>>, <<78, 70, 75, 67>>, <<78, 70, 75, 68>>}

\* the code points of the model have no decomposition: each form keeps them
Normalized(cps, form) == cps

\* NULL is "NFC"; an unknown form is an invalid argument
zstring_normalize(zstr, form) ==
    LET f == IF form = None THEN <<78, 70, 67>> ELSE form[1]
    IN  IF f \notin NormalizationForms
        THEN [err |-> ZSTRING_ERROR_INVALID_ARGUMENT, out |-> None]
        ELSE [err |-> ZSTRING_OK,
              out |-> Some(Utf16(Normalized(zstring_bytes(zstr), f)))]

\* the sign of the comparison of two code point sequences
RECURSIVE CompareCodePoints(_, _)
CompareCodePoints(a, b) ==
    IF a = <<>> /\ b = <<>> THEN 0
    ELSE IF a = <<>> THEN 0 - 1
    ELSE IF b = <<>> THEN 1
    ELSE IF Head(a) < Head(b) THEN 0 - 1
    ELSE IF Head(a) > Head(b) THEN 1
    ELSE CompareCodePoints(Tail(a), Tail(b))

zstring_locale_compare(zstr, that) ==
    CompareCodePoints(Normalized(zstring_bytes(zstr), <<78, 70, 67>>),
                      Normalized(that, <<78, 70, 67>>))

(* ------------------------- wrapper: results ----------------------------- *)

\* a method left by an Exception carrying error_code
Throw(error_code) == [thrown |-> error_code, fault |-> "none", value |-> None]

\* a method returned v
Return(v) == [thrown |-> ZSTRING_OK, fault |-> "none", value |-> v]

\* a method ran into undefined behaviour, which the build resolved as fault
Undefined(fault) == [thrown |-> ZSTRING_OK, fault |-> fault, value |-> None]

(* ------------------------- wrapper: methods ----------------------------- *)

String_ctor(str) == zstring_init(c_str(str)).out[1]

\* throw on an error code; else copy the result and free it
StringResult(r) ==
    IF r.err # ZSTRING_OK THEN Throw(r.err) ELSE Return(std_string(r.out[1]))

\* throw on an error code; else the scalar
ScalarResult(r) ==
    IF r.err # ZSTRING_OK THEN Throw(r.err) ELSE Return(r.out)

\* throw on an error code; std::nullopt for a NULL result
OptionalResult(r) ==
    IF r.err # ZSTRING_OK THEN Throw(r.err)
    ELSE IF r.out = None THEN Return(None)
    ELSE Return(Some(std_string(r.out[1])))

String_charAt(h, index) == StringResult(zstring_char_at(h, index))

\* faulty variant: a NULL result taken for an error
String_at_throwing(h, index) ==
    OptionalResult([err |-> IF zstring_at(h, index).out = None
                            THEN ZSTRING_ERROR_INDEX_OUT_OF_BOUNDS ELSE ZSTRING_OK,
                    out |-> zstring_at(h, index).out])

String_at(h, index) == OptionalResult(zstring_at(h, index))

String_charCodeAt(h, index) == ScalarResult(zstring_char_code_at(h, index))

String_codePointAt(h, index) == ScalarResult(zstring_code_point_at(h, index))

\* faulty variant: the position is dropped
String_indexOf_from0(h, search_str, position) ==
    Return(zstring_index_of(h, c_str(search_str), 0))

String_indexOf(h, search_str, position) ==
    Return(zstring_index_of(h, c_str(search_str), position))

\* faulty variant: the first occurrence instead of the last
String_lastIndexOf_first(h, search_str, position) ==
    Return(zstring_index_of(h, c_str(search_str), position))

String_lastIndexOf(h, search_str, position) ==
    Return(zstring_last_index_of(h, c_str(search_str), position))

String_includes(h, search_str, position) ==
    Return(zstring_includes(h, c_str(search_str), position))

String_startsWith(h, search_str, position) ==
    Return(zstring_starts_with(h, c_str(search_str), position))

String_endsWith(h, search_str, length) ==
    Return(zstring_ends_with(h, c_str(search_str), length))

\* faulty variant: the arguments in the wrong order
String_slice_swapped(h, start, end) == StringResult(zstring_slice(h, end, start))

String_slice(h, start, end) == StringResult(zstring_slice(h, start, end))

\* faulty variant: the error code is not looked at
String_repeat_unchecked(h, count) ==
    Return(IF zstring_repeat(h, count).out = None THEN <<>>
           ELSE std_string(zstring_repeat(h, count).out[1]))

String_repeat(h, count) == StringResult(zstring_repeat(h, count))

(* ------------------------- core: padding -------------------------------- *)

\* the first n units of pad repeated
PadFill(pad, n) == [i \in 1..n |-> pad[((i - 1) % Len(pad)) + 1]]

\* NULL is a single space
PadUnits(pad_str) == IF pad_str = None THEN <<32>> ELSE Utf16(pad_str[1])

zstring_pad_start(zstr, target_length, pad_str) ==
    LET u == Units(zstr)
        pad == PadUnits(pad_str)
    IN  [err |-> ZSTRING_OK,
         out |-> Some(IF Len(u) >= target_length \/ pad = <<>>
                      THEN u
                      ELSE PadFill(pad, target_length - Len(u)) \o u)]

zstring_pad_end(zstr, target_length, pad_str) ==
    LET u == Units(zstr)
        pad == PadUnits(pad_str)
    IN  [err |-> ZSTRING_OK,
         out |-> Some(IF Len(u) >= target_length \/ pad = <<>>
                      THEN u
                      ELSE u \o PadFill(pad, target_length - Len(u)))]

(* ------------------------- core: split ---------------------------------- *)

\* the pieces of u between successive non-overlapping occurrences of sep
RECURSIVE SplitOn(_, _)
SplitOn(u, sep) ==
    LET found == {i \in 0..Len(u) : OccursAt(u, sep, i)}
    IN  IF found = {}
        THEN <<u>>
        ELSE LET i == SetMin(found)
             IN  <<Sub(u, 0, i)>> \o SplitOn(Sub(u, i + Len(sep), Len(u)), sep)

\* one item per UTF-16 unit
SplitUnits(u) == [i \in 1..Len(u) |-> <<u[i]>>]

\* limit 0 is unlimited
Limited(items, limit) ==
    IF limit = 0 \/ Len(items) <= limit THEN items ELSE SubSeq(items, 1, limit)

\* ZStringArray: items and count
ZStringArray(items) == [items |-> items, count |-> Len(items)]

\* a NULL separator splits into characters (zstring.h: "pass NULL to split
\* into characters"), as the empty separator does
zstring_split(zstr, separator, limit) ==
    LET u == Units(zstr)
        pieces == IF separator = None THEN SplitUnits(u)
                  ELSE IF Utf16(separator[1]) = <<>> THEN SplitUnits(u)
                  ELSE SplitOn(u, Utf16(separator[1]))
    IN  [err |-> ZSTRING_OK,
         out |-> ZStringArray(Limited([i \in 1..Len(pieces) |-> Some(pieces[i])],
                                      limit))]

(* ------------------------- core: regex ---------------------------------- *)

\* The pattern syntax modelled: literals, groups ( ), alternation |.
\* '(' is 40, ')' is 41, '|' is 124.

ParseFail == [ok |-> FALSE, node |-> <<>>, next |-> 0]

Parsed(node, next) == [ok |-> TRUE, node |-> node, next |-> next]

\* the number of the group whose '(' is at k
GroupNumber(p, k) == Cardinality({j \in 1..k : p[j] = 40})

\* a group is closed by its ')'
CloseGroup(p, k, inner) ==
    IF ~inner.ok THEN inner
    ELSE IF inner.next > Len(p) \/ p[inner.next] # 41 THEN ParseFail
    ELSE Parsed([t |-> "group", idx |-> GroupNumber(p, k), alts |-> inner.node],
                inner.next + 1)

\* a node in front of the nodes that follow it
Cons(first, rest) ==
    IF ~rest.ok THEN rest ELSE Parsed(<<first.node>> \o rest.node, rest.next)

RECURSIVE ParseAlt(_, _), ParseSeq(_, _), ParseAtom(_, _), ParseAtoms(_, _),
          ParseMore(_, _)

\* a literal, or a group up to its ')'
ParseAtom(p, k) ==
    IF p[k] = 40
    THEN CloseGroup(p, k, ParseAlt(p, k + 1))
    ELSE Parsed([t |-> "lit", c |-> p[k]], k + 1)

ParseAtoms(p, a) == IF ~a.ok THEN a ELSE Cons(a, ParseSeq(p, a.next))

\* atoms up to '|', ')' or the end
ParseSeq(p, k) ==
    IF k > Len(p) \/ p[k] = 124 \/ p[k] = 41
    THEN Parsed(<<>>, k)
    ELSE ParseAtoms(p, ParseAtom(p, k))

ParseMore(p, first) ==
    IF ~first.ok THEN first
    ELSE IF first.next <= Len(p) /\ p[first.next] = 124
    THEN Cons(first, ParseAlt(p, first.next + 1))
    ELSE Parsed(<<first.node>>, first.next)

\* alternatives separated by '|'
ParseAlt(p, k) == ParseMore(p, ParseSeq(p, k))

Compiled(p, r) ==
    IF r.ok /\ r.next = Len(p) + 1
    THEN [err |-> ZSTRING_OK,
          prog |-> [alts |-> r.node, ngroups |-> GroupNumber(p, Len(p))]]
    ELSE [err |-> ZSTRING_ERROR_REGEX_COMPILE,
          prog |-> [alts |-> <<>>, ngroups |-> 0]]

ParsePattern(p) == Compiled(p, ParseAlt(p, 1))

\* Pattern: the compiled automaton, or REGEX_COMPILE on malformed syntax
regex_compile(pattern) == ParsePattern(Utf16(pattern))

\* Backtracking: each Match operator gives the matcher's states after the
\* node, in the order the matcher tries them.

\* the group idx, entered at from, holds what was matched since
Captured(rs, idx, from) ==
    [k \in 1..Len(rs) |-> [rs[k] EXCEPT !.caps[idx] = Some(<<from, rs[k].pos>>)]]

RECURSIVE MatchAlt(_, _, _), MatchSeq(_, _, _), MatchAtom(_, _, _),
          MatchRest(_, _, _)

MatchAtom(a, u, st) ==
    IF a.t = "lit"
    THEN IF st.pos < Len(u) /\ u[st.pos + 1] = a.c
         THEN <<[st EXCEPT !.pos = @ + 1]>>
         ELSE <<>>
    ELSE Captured(MatchAlt(a.alts, u, st), a.idx, st.pos)

MatchRest(atoms, u, rs) ==
    Flatten([k \in 1..Len(rs) |-> MatchSeq(atoms, u, rs[k])])

MatchSeq(atoms, u, st) ==
    IF Len(atoms) = 0 THEN <<st>>
    ELSE MatchRest(Tail(atoms), u, MatchAtom(Head(atoms), u, st))

MatchAlt(alts, u, st) ==
    Flatten([k \in 1..Len(alts) |-> MatchSeq(alts[k], u, st)])

MatchesAt(prog, u, i) ==
    MatchAlt(prog.alts, u, [pos |-> i, caps |-> [g \in 1..prog.ngroups |-> None]])

NoMatch == [found |-> FALSE, index |-> -1, end |-> -1, caps |-> <<>>]

Matched(i, m) == [found |-> TRUE, index |-> i, end |-> m.pos, caps |-> m.caps]

FirstOf(prog, u, starts) ==
    IF starts = {} THEN NoMatch
    ELSE Matched(SetMin(starts), Head(MatchesAt(prog, u, SetMin(starts))))

\* MatchResult: the first match at or after from
regex_exec(prog, u, from) ==
    FirstOf(prog, u, {i \in from..Len(u) : Len(MatchesAt(prog, u, i)) > 0})

SearchIndex(c, u) ==
    IF c.err # ZSTRING_OK THEN -1 ELSE regex_exec(c.prog, u, 0).index

\* int64_t zstring_search: an index or -1, and no error code
zstring_search(zstr, pattern) == SearchIndex(regex_compile(pattern), Units(zstr))

\* group 0 is the whole match; a group that did not participate is NULL
MatchItems(ngroups, u, m) ==
    IF ~m.found THEN <<>>
    ELSE <<Some(Sub(u, m.index, m.end))>> \o
         [g \in 1..ngroups |->
             IF m.caps[g] = None THEN None
             ELSE Some(Sub(u, m.caps[g][1][1], m.caps[g][1][2]))]

MatchArray(c, u) ==
    IF c.err # ZSTRING_OK THEN [err |-> c.err, out |-> ZStringArray(<<>>)]
    ELSE [err |-> ZSTRING_OK,
          out |-> ZStringArray(MatchItems(c.prog.ngroups, u,
                                          regex_exec(c.prog, u, 0)))]

zstring_match(zstr, pattern) == MatchArray(regex_compile(pattern), Units(zstr))

\* the first match replaced
ReplaceFirst(u, rep, m) ==
    IF ~m.found THEN u
    ELSE Sub(u, 0, m.index) \o rep \o Sub(u, m.end, Len(u))

Replaced(c, u, rep) ==
    IF c.err # ZSTRING_OK THEN [err |-> c.err, out |-> None]
    ELSE [err |-> ZSTRING_OK,
          out |-> Some(ReplaceFirst(u, rep, regex_exec(c.prog, u, 0)))]

zstring_replace(zstr, search_value, replace_value) ==
    Replaced(regex_compile(search_value), Units(zstr), Utf16(replace_value))

\* every non-overlapping match from pos on; a zero-length match is passed
\* by one unit
RECURSIVE ReplaceFrom(_, _, _, _), ReplaceMatch(_, _, _, _, _)

ReplaceMatch(prog, u, rep, pos, m) ==
    IF ~m.found THEN Sub(u, pos, Len(u))
    ELSE Sub(u, pos, m.index) \o rep \o
         (IF m.end > m.index THEN ReplaceFrom(prog, u, rep, m.end)
          ELSE IF m.index < Len(u)
          THEN <<u[m.index + 1]>> \o ReplaceFrom(prog, u, rep, m.index + 1)
          ELSE <<>>)

ReplaceFrom(prog, u, rep, pos) ==
    ReplaceMatch(prog, u, rep, pos, regex_exec(prog, u, pos))

ReplacedAll(c, u, rep) ==
    IF c.err # ZSTRING_OK THEN [err |-> c.err, out |-> None]
    ELSE [err |-> ZSTRING_OK, out |-> Some(ReplaceFrom(c.prog, u, rep, 0))]

zstring_replace_all(zstr, search_value, replace_value) ==
    ReplacedAll(regex_compile(search_value), Units(zstr), Utf16(replace_value))

(* ------------------------- wrapper: more methods ------------------------ *)

\* faulty variant: pads at the end
String_padStart_end(h, target_length, pad_str) ==
    StringResult(zstring_pad_end(h, target_length, Some(c_str(pad_str))))

String_padStart(h, target_length, pad_str) ==
    StringResult(zstring_pad_start(h, target_length, Some(c_str(pad_str))))

String_padEnd(h, target_length, pad_str) ==
    StringResult(zstring_pad_end(h, target_length, Some(c_str(pad_str))))

\* faulty variant: the loop stops one item early
VectorOf_short(array) ==
    [i \in 1..(array.count - 1) |-> std_string(array.items[i][1])]

\* the loop over array.items[0 .. count): one std::string per item
VectorOf(array) == [i \in 1..array.count |-> std_string(array.items[i][1])]

\* std::string(nullptr) is undefined
HasNull(array) == \E i \in 1..array.count : array.items[i] = None

\* what a build makes of it: std::logic_error, or a fault in strlen
UBOutcomes == {"logic_error", "crash"}

\* faulty variant: the vector is built with count elements, not reserved
VectorResult_sized(r, ub) ==
    IF r.err # ZSTRING_OK THEN Throw(r.err)
    ELSE IF HasNull(r.out) THEN Undefined(ub)
    ELSE Return([i \in 1..r.out.count |-> <<>>] \o VectorOf(r.out))

\* throw on an error code; else copy the items and free the array
VectorResult(r, ub) ==
    IF r.err # ZSTRING_OK THEN Throw(r.err)
    ELSE IF HasNull(r.out) THEN Undefined(ub)
    ELSE Return(VectorOf(r.out))

String_split(h, separator, limit, ub) ==
    VectorResult(zstring_split(h, Some(c_str(separator)), limit), ub)

\* split(limit): the separator is nullptr
String_split_limit(h, limit, ub) ==
    VectorResult(zstring_split(h, None, limit), ub)

String_search(h, pattern) == Return(zstring_search(h, c_str(pattern)))

String_match(h, pattern, ub) ==
    VectorResult(zstring_match(h, c_str(pattern)), ub)

String_replace(h, search_value, replace_value) ==
    StringResult(zstring_replace(h, c_str(search_value), c_str(replace_value)))

\* faulty variant: zstring_replace is called
String_replaceAll_first(h, search_value, replace_value) ==
    StringResult(zstring_replace(h, c_str(search_value), c_str(replace_value)))

String_replaceAll(h, search_value, replace_value) ==
    StringResult(zstring_replace_all(h, c_str(search_value), c_str(replace_value)))

\* faulty variant: the code points are counted
String_length_code_points(h) == Return(Len(zstring_bytes(h)))

\* length(): the cached UTF-16 length
String_length(h) == Return(zstring_length(h))

\* toString(): a copy of the borrowed bytes (code points, up to the NUL)
String_toString(h) == Return(std_string(zstring_bytes(h)))

String_substring(h, start, end) == StringResult(zstring_substring(h, start, end))

String_concat(h, strings) ==
    StringResult(zstring_concat(h, [i \in 1..Len(strings) |-> c_str(strings[i])],
                                Len(strings)))

String_trim(h) == StringResult(zstring_trim(h))

String_trimStart(h) == StringResult(zstring_trim_start(h))

String_trimEnd(h) == StringResult(zstring_trim_end(h))

String_toLowerCase(h) == StringResult(zstring_to_lower_case(h))

String_toUpperCase(h) == StringResult(zstring_to_upper_case(h))

String_localeCompare(h, that) == Return(zstring_locale_compare(h, c_str(that)))

String_normalize(h, form) == StringResult(zstring_normalize(h, Some(c_str(form))))

(* ------------------------- wrapper: allocations ------------------------- *)

\* What a call did with the memory of the core: the code the core returned,
\* the strings and arrays the core allocated for the call, and the calls of
\* zstring_str_free and zstring_array_free the wrapper made.
Heap(err, strings, arrays, str_free, array_free) ==
    [err |-> err, strings |-> strings, arrays |-> arrays,
     str_free |-> str_free, array_free |-> array_free]

\* no out parameter and no error code: length, toString (borrowed bytes,
\* copied and not released), search, localeCompare
ValueHeap == Heap(ZSTRING_OK, 0, 0, 0, 0)

\* an out scalar: nothing allocated, nothing released
ScalarHeap(r) == Heap(r.err, 0, 0, 0, 0)

\* faulty variant: the result is released on the error path too
StringHeap_released(r) == Heap(r.err, IF r.out = None THEN 0 ELSE 1, 0, 1, 0)

\* char* result: the throw leaves before zstring_str_free; else one release
StringHeap(r) ==
    Heap(r.err, IF r.out = None THEN 0 ELSE 1, 0,
         IF r.err = ZSTRING_OK THEN 1 ELSE 0, 0)

\* at(): the nullopt return leaves before zstring_str_free
OptionalHeap(r) ==
    Heap(r.err, IF r.out = None THEN 0 ELSE 1, 0,
         IF r.err = ZSTRING_OK /\ r.out # None THEN 1 ELSE 0, 0)

\* ZStringArray array: the throw leaves before zstring_array_free, and so
\* does what std::string(nullptr) ends in
VectorHeap(r) ==
    Heap(r.err, 0, IF r.err = ZSTRING_OK \/ r.out.count > 0 THEN 1 ELSE 0,
         0, IF r.err = ZSTRING_OK /\ ~HasNull(r.out) THEN 1 ELSE 0)

(* ------------------------- inputs --------------------------------------- *)

\* pattern characters: 'a', '(', ')', '|'
PatChars == {97, 40, 41, 124}
Patterns == SeqsUpTo(PatChars, MaxLen)
Replacements == {<<>>, <<98>>}
\* pad strings: the texts, and the default " "
PadStrings == ArgStrings \cup {<<32>>}
Counts == (0 - 2) .. SIZE_MAX
Lengths == 0 .. (2 * MaxLen + 1)

\* normalize: the four forms, and two that are none of them
Forms == NormalizationForms \cup {<<>>, <<78, 70>>}
\* concat: up to two strings
StringLists == SeqsUpTo({<<>>, <<97>>, <<128512, 0, 98>>}, 2)

\* the arguments of a call, by the shape of the methods that take them
Inputs ==
    {[kind |-> "index", index |-> i] : i \in Indexes}
    \cup {[kind |-> "search", search_str |-> x, position |-> p] :
              x \in ArgStrings, p \in Indexes}
    \cup {[kind |-> "range", start |-> a, end |-> b] :
              a \in Indexes, b \in Indexes \cup {INT64_MAX}}
    \cup {[kind |-> "count", count |-> n] : n \in Counts}
    \cup {[kind |-> "pad", target_length |-> n, pad_str |-> x] :
              n \in Lengths, x \in PadStrings}
    \cup {[kind |-> "split", separator |-> x, limit |-> n] :
              x \in ArgStrings, n \in Lengths}
    \cup {[kind |-> "regex", pattern |-> x, replace_value |-> y] :
              x \in Patterns, y \in Replacements}
    \cup {[kind |-> "none"]}
    \cup {[kind |-> "text", that |-> x] : x \in ArgStrings}
    \cup {[kind |-> "form", form |-> x] : x \in Forms}
    \cup {[kind |-> "list", strings |-> x] : x \in StringLists}

(* ------------------------- wrapper: ownership --------------------------- *)

\* String objects by name, each with its handle_; the ZString handles the
\* core has given out; and the last call into the core with the handle it
\* was passed and the state that handle was in.
Names == 1..MaxObjects
Handles == 1..MaxHandles
nullptr == 0

NoObjects == [o \in Names |-> [state |-> "none", handle_ |-> nullptr]]
NoHandles == [h \in Handles |-> [state |-> "unused", frees |-> 0]]
NoCall == [fn |-> "none", handle |-> nullptr, state |-> "null"]

CoreCall(fn, h) ==
    [fn |-> fn, handle |-> h,
     state |-> IF h = nullptr THEN "null" ELSE core[h].state]

\* zstring_free(h)
Freed(h) == [core EXCEPT ![h] = [state |-> "freed", frees |-> @.frees + 1]]

\* String(const char* str): a null str throws before zstring_init is
\* called, a failed zstring_init throws after it, and no object comes to
\* be; else handle_ is the new ZString
String_new(o, str) ==
    /\ objects[o].state = "none"
    /\ IF str = None
       THEN /\ last' = NoCall
            /\ UNCHANGED <<objects, core>>
       ELSE \E err \in {ZSTRING_OK, ZSTRING_ERROR_INVALID_UTF8}, h \in Handles :
                /\ core[h].state = "unused"
                /\ \A g \in Handles : core[g].state = "unused" => h <= g
                /\ IF err # ZSTRING_OK
                   THEN /\ last' = CoreCall("zstring_init", nullptr)
                        /\ UNCHANGED <<objects, core>>
                   ELSE /\ core' = [core EXCEPT ![h].state = "live"]
                        /\ objects' = [objects EXCEPT
                                           ![o] = [state |-> "alive", handle_ |-> h]]
                        /\ last' = CoreCall("zstring_init", h)

\* faulty variant: other keeps its handle_
String_move_sharing(o, other) ==
    /\ objects[o].state = "none"
    /\ objects[other].state = "alive"
    /\ objects' = [objects EXCEPT
                       ![o] = [state |-> "alive", handle_ |-> objects[other].handle_]]
    /\ last' = NoCall
    /\ UNCHANGED core

\* String(String&& other): handle_(other.handle_), other.handle_ = nullptr
String_move(o, other) ==
    /\ objects[o].state = "none"
    /\ objects[other].state = "alive"
    /\ objects' = [objects EXCEPT
                       ![o] = [state |-> "alive", handle_ |-> objects[other].handle_],
                       ![other].handle_ = nullptr]
    /\ last' = NoCall
    /\ UNCHANGED core

\* operator=(String&& other): nothing for this == &other; else the own
\* handle_ is freed if not null, and other's is taken
String_assign(o, other) ==
    /\ objects[o].state = "alive"
    /\ objects[other].state = "alive"
    /\ IF o = other
       THEN /\ last' = NoCall
            /\ UNCHANGED <<objects, core>>
       ELSE /\ IF objects[o].handle_ # nullptr
               THEN /\ core' = Freed(objects[o].handle_)
                    /\ last' = CoreCall("zstring_free", objects[o].handle_)
               ELSE /\ last' = NoCall
                    /\ UNCHANGED core
            /\ objects' = [objects EXCEPT
                               ![o].handle_ = objects[other].handle_,
                               ![other].handle_ = nullptr]

\* ~String(): handle_ is freed if not null
String_delete(o) ==
    /\ objects[o].state = "alive"
    /\ IF objects[o].handle_ # nullptr
       THEN /\ core' = Freed(objects[o].handle_)
            /\ last' = CoreCall("zstring_free", objects[o].handle_)
       ELSE /\ last' = NoCall
            /\ UNCHANGED core
    /\ objects' = [objects EXCEPT ![o].state = "destroyed"]

\* a method of a String: handle_ goes to the core as it is
String_method(o, fn) ==
    /\ objects[o].state = "alive"
    /\ last' = CoreCall(fn, objects[o].handle_)
    /\ UNCHANGED <<objects, core>>

(* ------------------------- the state machine ---------------------------- *)

\* A String constructed from str, and the arguments the calls are made with.
Init ==
    /\ \E str \in StdStrings : handle_ = String_ctor(str)
    /\ args \in Inputs
    /\ call = "new"
    /\ ret = Return(None)
    /\ heap = ValueHeap
    /\ objects = NoObjects
    /\ core = NoHandles
    /\ last = NoCall

\* faulty variant: the call leaves the String empty
Does_consuming(op, result) ==
    /\ call' = op
    /\ ret' = result
    /\ handle_' = String_ctor(<<>>)
    /\ UNCHANGED <<args, objects, core, last>>

\* a call of a const method: the result, and the String as it was
Does(op, result) ==
    /\ call' = op
    /\ ret' = result
    /\ UNCHANGED <<handle_, args, objects, core, last>>

charAt ==
    /\ args.kind = "index"
    /\ Does("charAt",
            String_charAt(handle_, size_t(args.index)))
    /\ heap' = StringHeap(zstring_char_at(handle_, size_t(args.index)))

at ==
    /\ args.kind = "index"
    /\ Does("at",
            String_at(handle_, args.index))
    /\ heap' = OptionalHeap(zstring_at(handle_, args.index))

charCodeAt ==
    /\ args.kind = "index"
    /\ Does("charCodeAt",
            String_charCodeAt(handle_, size_t(args.index)))
    /\ heap' = ScalarHeap(zstring_char_code_at(handle_, size_t(args.index)))

codePointAt ==
    /\ args.kind = "index"
    /\ Does("codePointAt",
            String_codePointAt(handle_, size_t(args.index)))
    /\ heap' = ScalarHeap(zstring_code_point_at(handle_, size_t(args.index)))

indexOf ==
    /\ args.kind = "search"
    /\ Does("indexOf",
            String_indexOf(handle_, args.search_str, args.position))
    /\ heap' = ValueHeap

lastIndexOf ==
    /\ args.kind = "search"
    /\ Does("lastIndexOf",
            String_lastIndexOf(handle_, args.search_str, args.position))
    /\ heap' = ValueHeap

includes ==
    /\ args.kind = "search"
    /\ Does("includes",
            String_includes(handle_, args.search_str, args.position))
    /\ heap' = ValueHeap

startsWith ==
    /\ args.kind = "search"
    /\ Does("startsWith",
            String_startsWith(handle_, args.search_str, args.position))
    /\ heap' = ValueHeap

endsWith ==
    /\ args.kind = "search"
    /\ Does("endsWith",
            String_endsWith(handle_, args.search_str, args.position))
    /\ heap' = ValueHeap

slice ==
    /\ args.kind = "range"
    /\ Does("slice",
            String_slice(handle_, args.start, args.end))
    /\ heap' = StringHeap(zstring_slice(handle_, args.start, args.end))

substring ==
    /\ args.kind = "range"
    /\ Does("substring",
            String_substring(handle_, size_t(args.start), size_t(args.end)))
    /\ heap' = StringHeap(zstring_substring(handle_, size_t(args.start),
                                            size_t(args.end)))

concat ==
    /\ args.kind = "list"
    /\ Does("concat",
            String_concat(handle_, args.strings))
    /\ heap' = StringHeap(zstring_concat(
                   handle_,
                   [i \in 1..Len(args.strings) |-> c_str(args.strings[i])],
                   Len(args.strings)))

repeat ==
    /\ args.kind = "count"
    /\ Does("repeat",
            String_repeat(handle_, size_t(args.count)))
    /\ heap' = StringHeap(zstring_repeat(handle_, size_t(args.count)))

padStart ==
    /\ args.kind = "pad"
    /\ Does("padStart",
            String_padStart(handle_, size_t(args.target_length), args.pad_str))
    /\ heap' = StringHeap(zstring_pad_start(handle_, size_t(args.target_length),
                                            Some(c_str(args.pad_str))))

padEnd ==
    /\ args.kind = "pad"
    /\ Does("padEnd",
            String_padEnd(handle_, size_t(args.target_length), args.pad_str))
    /\ heap' = StringHeap(zstring_pad_end(handle_, size_t(args.target_length),
                                          Some(c_str(args.pad_str))))

trim ==
    /\ args.kind = "none"
    /\ Does("trim",
            String_trim(handle_))
    /\ heap' = StringHeap(zstring_trim(handle_))

trimStart ==
    /\ args.kind = "none"
    /\ Does("trimStart",
            String_trimStart(handle_))
    /\ heap' = StringHeap(zstring_trim_start(handle_))

trimEnd ==
    /\ args.kind = "none"
    /\ Does("trimEnd",
            String_trimEnd(handle_))
    /\ heap' = StringHeap(zstring_trim_end(handle_))

split ==
    /\ args.kind = "split"
    /\ \E ub \in UBOutcomes :
           Does("split",
                String_split(handle_, args.separator, size_t(args.limit), ub))
    /\ heap' = VectorHeap(zstring_split(handle_, Some(c_str(args.separator)),
                                        size_t(args.limit)))

split_limit ==
    /\ args.kind = "split"
    /\ \E ub \in UBOutcomes :
           Does("split_limit",
                String_split_limit(handle_, size_t(args.limit), ub))
    /\ heap' = VectorHeap(zstring_split(handle_, None, size_t(args.limit)))

toLowerCase ==
    /\ args.kind = "none"
    /\ Does("toLowerCase",
            String_toLowerCase(handle_))
    /\ heap' = StringHeap(zstring_to_lower_case(handle_))

toUpperCase ==
    /\ args.kind = "none"
    /\ Does("toUpperCase",
            String_toUpperCase(handle_))
    /\ heap' = StringHeap(zstring_to_upper_case(handle_))

localeCompare ==
    /\ args.kind = "text"
    /\ Does("localeCompare",
            String_localeCompare(handle_, args.that))
    /\ heap' = ValueHeap

normalize ==
    /\ args.kind = "form"
    /\ Does("normalize",
            String_normalize(handle_, args.form))
    /\ heap' = StringHeap(zstring_normalize(handle_, Some(c_str(args.form))))

length ==
    /\ args.kind = "none"
    /\ Does("length",
            String_length(handle_))
    /\ heap' = ValueHeap

toString ==
    /\ args.kind = "none"
    /\ Does("toString",
            String_toString(handle_))
    /\ heap' = ValueHeap

search ==
    /\ args.kind = "regex"
    /\ Does("search",
            String_search(handle_, args.pattern))
    /\ heap' = ValueHeap

match ==
    /\ args.kind = "regex"
    /\ \E ub \in UBOutcomes :
           Does("match",
                String_match(handle_, args.pattern, ub))
    /\ heap' = VectorHeap(zstring_match(handle_, c_str(args.pattern)))

replace ==
    /\ args.kind = "regex"
    /\ Does("replace",
            String_replace(handle_, args.pattern, args.replace_value))
    /\ heap' = StringHeap(zstring_replace(handle_, c_str(args.pattern),
                                          c_str(args.replace_value)))

replaceAll ==
    /\ args.kind = "regex"
    /\ Does("replaceAll",
            String_replaceAll(handle_, args.pattern, args.replace_value))
    /\ heap' = StringHeap(zstring_replace_all(handle_, c_str(args.pattern),
                                              c_str(args.replace_value)))

Next ==
    \/ charAt
    \/ at
    \/ charCodeAt
    \/ codePointAt
    \/ indexOf
    \/ lastIndexOf
    \/ includes
    \/ startsWith
    \/ endsWith
    \/ slice
    \/ substring
    \/ concat
    \/ repeat
    \/ padStart
    \/ padEnd
    \/ trim
    \/ trimStart
    \/ trimEnd
    \/ split
    \/ split_limit
    \/ toLowerCase
    \/ toUpperCase
    \/ localeCompare
    \/ normalize
    \/ length
    \/ toString
    \/ search
    \/ match
    \/ replace
    \/ replaceAll

Spec == Init /\ [][Next]_vars

(* ------------------------- the objects' lives --------------------------- *)

\* the arguments of the constructor: a null pointer, a text
CStrings == {None, Some(<<>>), Some(<<97>>)}

\* no String yet
NoStrings ==
    /\ handle_ = String_ctor(<<>>)
    /\ args = [kind |-> "none"]
    /\ call = "new"
    /\ ret = Return(None)
    /\ heap = ValueHeap
    /\ objects = NoObjects
    /\ core = NoHandles
    /\ last = NoCall

Unused == UNCHANGED <<handle_, args, call, ret, heap>>

construct == Unused /\ \E o \in Names, str \in CStrings : String_new(o, str)

move_construct == Unused /\ \E o, other \in Names : String_move(o, other)

move_assign == Unused /\ \E o, other \in Names : String_assign(o, other)

destruct == Unused /\ \E o \in Names : String_delete(o)

method ==
    Unused /\ \E o \in Names, fn \in {"zstring_length", "zstring_bytes"} :
                  String_method(o, fn)

Lives ==
    \/ construct
    \/ move_construct
    \/ move_assign
    \/ destruct
    \/ method

Lifecycle == NoStrings /\ [][Lives]_vars

(* ------------------------- properties ----------------------------------- *)

\* the String's text as UTF-16 units, and its length
Str == Units(handle_)
StrLen == Len(Str)

Returned == ret.thrown = ZSTRING_OK /\ ret.fault = "none"

\* x occurs in the String at unit index i, unit by unit
Occurs(x, i) ==
    /\ i >= 0
    /\ i + Len(x) <= StrLen
    /\ \A k \in 1..Len(x) : Str[i + k] = x[k]

RECURSIVE Join(_, _)
Join(pieces, sep) ==
    IF Len(pieces) = 0 THEN <<>>
    ELSE IF Len(pieces) = 1 THEN pieces[1]
    ELSE pieces[1] \o sep \o Join(Tail(pieces), sep)

Malformed == regex_compile(c_str(args.pattern)).err # ZSTRING_OK

C2_MalformedIsAnError ==
    call \in {"search", "match", "replace", "replaceAll"} =>
        /\ Malformed => ret.thrown = ZSTRING_ERROR_REGEX_COMPILE
        /\ (call = "search" /\ Returned /\ ret.value = -1) => ~Malformed
        /\ (call = "match" /\ Returned /\ ret.value = <<>>) => ~Malformed

\* C3 (as claimed): repeat(n) with a negative n fails with InvalidArgument,
\* for every string, the empty one included.
C3_NegativeRepeatFails ==
    (call = "repeat" /\ args.count < 0)
        => ret.thrown = ZSTRING_ERROR_INVALID_ARGUMENT

\* C4: with n the count in size_t: if length(s) * n is representable, repeat
\* returns length(s) * n units, s repeated; if not, it fails with
\* InvalidArgument and returns nothing.
C4_RepeatLength ==
    call = "repeat" =>
        LET n == size_t(args.count)
        IN  IF StrLen * n <= SIZE_MAX
            THEN /\ Returned
                 /\ Len(ret.value) = StrLen * n
                 /\ \A k \in 1..(StrLen * n) :
                        ret.value[k] = Str[((k - 1) % StrLen) + 1]
            ELSE /\ ret.thrown = ZSTRING_ERROR_INVALID_ARGUMENT
                 /\ ret.value = None

\* a product that does not fit failed, where the product modulo 2^w is a
\* length repeat could have returned
C4_Witness ==
    /\ call = "repeat"
    /\ args.count >= 0
    /\ StrLen * args.count > SIZE_MAX
    /\ ret.thrown = ZSTRING_ERROR_INVALID_ARGUMENT

\* C5: charAt, charCodeAt and codePointAt fail with IndexOutOfBounds exactly
\* when the index is outside [0, length(s)); at never fails: it counts a
\* negative index from the end and gives the unit at the resolved index, or
\* no value when that is outside [0, length(s)).
C5_IndexAccess ==
    /\ call \in {"charAt", "charCodeAt", "codePointAt"} =>
           IF args.index < 0 \/ args.index >= StrLen
           THEN ret.thrown = ZSTRING_ERROR_INDEX_OUT_OF_BOUNDS
           ELSE /\ Returned
                /\ call = "charAt" => ret.value = <<Str[args.index + 1]>>
                /\ call = "charCodeAt" => ret.value = Str[args.index + 1]
    /\ call = "at" =>
           LET k == IF args.index < 0 THEN StrLen + args.index ELSE args.index
           IN  /\ Returned
               /\ IF k >= 0 /\ k < StrLen
                  THEN ret.value = Some(<<Str[k + 1]>>)
                  ELSE ret.value = None

\* at(-1) gave the last unit of a text of two units or more
C5_Witness ==
    /\ call = "at"
    /\ args.index = -1
    /\ StrLen >= 2
    /\ ret.value = Some(<<Str[StrLen]>>)

\* C6: slice resolves v < 0 to max(length + v, 0) and v >= 0 to
\* min(v, length); it returns the empty string when start >= end resolved,
\* else the units in [start, end); slice(0, length) is s.
Resolved(v) == IF v < 0 THEN Max(StrLen + v, 0) ELSE Min(v, StrLen)

C6_Slice ==
    call = "slice" =>
        LET a == Resolved(args.start)
            b == Resolved(args.end)
        IN  /\ Returned
            /\ IF a >= b
               THEN ret.value = <<>>
               ELSE /\ Len(ret.value) = b - a
                    /\ \A k \in 1..(b - a) : ret.value[k] = Str[a + k]
            /\ (args.start = 0 /\ args.end \in {StrLen, INT64_MAX})
                   => ret.value = Str

\* slice(-1, INT64_MAX) gave the last unit of a text of two units or more
C6_Witness ==
    /\ call = "slice"
    /\ args.start = -1
    /\ args.end = INT64_MAX
    /\ StrLen >= 2
    /\ ret.value = <<Str[StrLen]>>

\* the search string as the core receives it, in units
SearchUnits == Utf16(c_str(args.search_str))

\* the least index from q on at which x occurs, or -1
FirstFrom(x, q) ==
    IF \E i \in q..StrLen : Occurs(x, i)
    THEN CHOOSE i \in q..StrLen :
             Occurs(x, i) /\ \A j \in q..(i - 1) : ~Occurs(x, j)
    ELSE -1

\* the greatest index up to q at which x occurs, or -1
LastUpTo(x, q) ==
    IF \E i \in 0..q : Occurs(x, i)
    THEN CHOOSE i \in 0..q :
             Occurs(x, i) /\ \A j \in (i + 1)..q : ~Occurs(x, j)
    ELSE -1

\* C7: indexOf, includes and startsWith behave as if the position p were
\* min(max(p, 0), length(s)); for the empty search string indexOf returns
\* the clamped position; a non-empty one with p >= length(s) gives -1 / false.
C7_ClampedStart ==
    call \in {"indexOf", "includes", "startsWith"} =>
        LET x == SearchUnits
            q == Min(Max(args.position, 0), StrLen)
        IN  /\ Returned
            /\ call = "indexOf" =>
                   /\ ret.value = FirstFrom(x, q)
                   /\ x = <<>> => ret.value = q
                   /\ (x # <<>> /\ args.position >= StrLen) => ret.value = -1
            /\ call = "includes" =>
                   /\ ret.value = (\E i \in q..StrLen : Occurs(x, i))
                   /\ (x # <<>> /\ args.position >= StrLen) => ret.value = FALSE
            /\ call = "startsWith" =>
                   /\ ret.value = Occurs(x, q)
                   /\ (x # <<>> /\ args.position >= StrLen) => ret.value = FALSE

\* indexOf of the empty string from beyond the end gave the length
C7_Witness ==
    /\ call = "indexOf"
    /\ SearchUnits = <<>>
    /\ args.position > StrLen
    /\ StrLen >= 1
    /\ ret.value = StrLen

\* C8 (as claimed): for every position p, lastIndexOf returns the greatest
\* index i <= min(p, length(s)) at which x occurs, or -1, and p = -1 gives
\* the result of p = length(s); endsWith with -1 gives the result of
\* endsWith with length(s).
C8_LastIndexOfAnyPosition ==
    /\ call = "lastIndexOf" =>
           /\ ret.value = LastUpTo(SearchUnits, Min(args.position, StrLen))
           /\ args.position = -1 => ret.value = LastUpTo(SearchUnits, StrLen)
    /\ (call = "endsWith" /\ args.position = -1)
           => ret.value = Occurs(SearchUnits, StrLen - Len(SearchUnits))

\* C8 (amended): for every position p >= 0, lastIndexOf returns the greatest
\* index i <= min(p, length(s)) at which x occurs, or -1; p = -1 gives the
\* result of p = length(s); endsWith with -1 gives the result of endsWith
\* with length(s).
C8_LastIndexOf ==
    /\ call = "lastIndexOf" =>
           /\ Returned
           /\ args.position >= 0 =>
                  ret.value = LastUpTo(SearchUnits, Min(args.position, StrLen))
           /\ args.position = -1 => ret.value = LastUpTo(SearchUnits, StrLen)
    /\ (call = "endsWith" /\ args.position = -1) =>
           /\ Returned
           /\ ret.value = Occurs(SearchUnits, StrLen - Len(SearchUnits))

\* lastIndexOf with -1 found an occurrence past index 0, and not the first
C8_Witness ==
    /\ call = "lastIndexOf"
    /\ args.position = -1
    /\ ret.value >= 1
    /\ ret.value # FirstFrom(SearchUnits, 0)

\* the pad string as the core receives it, in units
PadStr == Utf16(c_str(args.pad_str))

\* C9: padStart and padEnd return s when length(s) >= t or the pad string
\* is empty; otherwise t units: s preceded (padStart) or followed (padEnd)
\* by the first t - length(s) units of the pad string repeated.  A NULL pad
\* string pads as " " does.  Every call returns.
C9_Pad ==
    call \in {"padStart", "padEnd"} =>
        LET t == size_t(args.target_length)
            d == t - StrLen
            n == Len(PadStr)
        IN  /\ Returned
            /\ IF StrLen >= t \/ n = 0
               THEN ret.value = Str
               ELSE /\ Len(ret.value) = t
                    /\ call = "padStart" =>
                           /\ \A k \in 1..d : ret.value[k] = PadStr[((k - 1) % n) + 1]
                           /\ \A k \in 1..StrLen : ret.value[d + k] = Str[k]
                    /\ call = "padEnd" =>
                           /\ \A k \in 1..StrLen : ret.value[k] = Str[k]
                           /\ \A k \in 1..d :
                                  ret.value[StrLen + k] = PadStr[((k - 1) % n) + 1]
            /\ zstring_pad_start(handle_, t, None)
                   = zstring_pad_start(handle_, t, Some(<<32>>))
            /\ zstring_pad_end(handle_, t, None)
                   = zstring_pad_end(handle_, t, Some(<<32>>))

\* padStart repeated a pad string of two units or more and cut it short
C9_Witness ==
    /\ call = "padStart"
    /\ Len(PadStr) >= 2
    /\ StrLen >= 1
    /\ args.target_length - StrLen > Len(PadStr)
    /\ (args.target_length - StrLen) % Len(PadStr) # 0
    /\ Len(ret.value) = args.target_length

\* the separator as the core receives it, in units
Separator == Utf16(c_str(args.separator))

\* x occurs somewhere in the units u
Within(u, x) ==
    \E i \in 0..(Len(u) - Len(x)) : \A k \in 1..Len(x) : u[i + k] = x[k]

\* C10: with a non-empty separator and limit 0, split returns the pieces
\* between the occurrences of the separator, empty pieces included, the
\* single piece s when it does not occur; joined with the separator the
\* pieces give s.
C10_SplitJoin ==
    (call = "split" /\ Separator # <<>> /\ size_t(args.limit) = 0) =>
        /\ Returned
        /\ Len(ret.value) >= 1
        /\ Join(ret.value, Separator) = Str
        /\ \A k \in 1..Len(ret.value) : ~Within(ret.value[k], Separator)
        /\ ~Within(Str, Separator) => ret.value = <<Str>>

\* a split into three pieces or more, the second one empty
C10_Witness ==
    /\ call = "split"
    /\ Separator # <<>>
    /\ size_t(args.limit) = 0
    /\ Len(ret.value) >= 3
    /\ ret.value[2] = <<>>

\* C11: when the core returns a code other than ZSTRING_OK it has allocated
\* no out string and no out array; the wrapper throws that code, returns no
\* value and calls neither zstring_str_free nor zstring_array_free.
C11_NoPartialOutput ==
    (call # "new" /\ heap.err # ZSTRING_OK)
        => /\ heap.strings = 0
           /\ heap.arrays = 0
           /\ heap.str_free = 0
           /\ heap.array_free = 0
           /\ ret.thrown = heap.err
           /\ ret.value = None

\* match with a pattern that does not compile threw the code of the core
C11_Witness ==
    /\ call = "match"
    /\ heap.err = ZSTRING_ERROR_REGEX_COMPILE
    /\ ret.thrown = ZSTRING_ERROR_REGEX_COMPILE

\* C12 (as claimed): match with a pattern that compiles returns group 0,
\* group 1, ... in order; every element converted to std::string is a valid
\* string, and a group that did not participate differs in the result from a
\* group that matched the empty string.
C12_MatchGroups ==
    (call = "match" /\ heap.err = ZSTRING_OK)
        => LET items == zstring_match(handle_, c_str(args.pattern)).out.items
           IN  /\ Returned
               /\ Len(ret.value) = Len(items)
               /\ \A i \in 1..Len(items) :
                      items[i] # None => ret.value[i] = items[i][1]
               /\ \A i, j \in 1..Len(items) :
                      (items[i] = None /\ items[j] = Some(<<>>))
                          => ret.value[i] # ret.value[j]

\* 1 for a code point up to U+FFFF, 2 above
RECURSIVE UnitCount(_)
UnitCount(cps) ==
    IF cps = <<>> THEN 0
    ELSE (IF Head(cps) > 65535 THEN 2 ELSE 1) + UnitCount(Tail(cps))

\* C13: length() returns the number of UTF-16 units of the code points the
\* String was constructed from, on every call.
C13_Length ==
    /\ zstring_length(handle_) = UnitCount(zstring_bytes(handle_))
    /\ call = "length" => Returned /\ ret.value = UnitCount(zstring_bytes(handle_))

\* length() of a text with a code point above U+FFFF
C13_Witness ==
    /\ call = "length"
    /\ \E i \in 1..Len(zstring_bytes(handle_)) : zstring_bytes(handle_)[i] > 65535
    /\ ret.value > Len(zstring_bytes(handle_))

\* C14: no operation, returning or throwing, changes the bytes or the length
\* of the String it is called on.
C14_Immutable == [][handle_' = handle_]_vars

\* a transform returned a value other than the text, and one threw
C14_Witness ==
    \/ call = "toUpperCase" /\ Returned /\ ret.value # Str
    \/ call = "normalize" /\ ret.thrown = ZSTRING_ERROR_INVALID_ARGUMENT /\ StrLen > 0

\* the pattern is made of literal characters only
Literal(p) == \A i \in 1..Len(p) : p[i] = 97

\* replaceAll with a literal: rep for every non-overlapping occurrence of x,
\* left to right; for the empty x, rep before every unit and at the end
LiteralReplaceAll(u, x, rep) ==
    IF x = <<>>
    THEN Join(<<<<>>>> \o [i \in 1..Len(u) |-> <<u[i]>>] \o <<<<>>>>, rep)
    ELSE Join(SplitOn(u, x), rep)

\* C15: replaceAll returns for every search value that compiles; with a
\* literal search value every non-overlapping occurrence is substituted left
\* to right, and the empty search value is substituted once before every
\* unit and once at the end.
C15_ReplaceAll ==
    call = "replaceAll" =>
        /\ ~Malformed => Returned
        /\ Literal(c_str(args.pattern))
               => ret.value = LiteralReplaceAll(Str, Utf16(c_str(args.pattern)),
                                                Utf16(c_str(args.replace_value)))

\* replaceAll("aaa", "a", "b") returned "bbb"
C15_Witness ==
    /\ call = "replaceAll"
    /\ Str = <<97, 97, 97>>
    /\ c_str(args.pattern) = <<97>>
    /\ c_str(args.replace_value) = <<98>>
    /\ ret.value = <<98, 98, 98>>

\* C16 (as claimed): on every path out of an operation every string the core
\* allocated for the call is released once with zstring_str_free and every
\* array once with zstring_array_free.
C16_ReleasedOnce ==
    call # "new" => /\ heap.str_free = heap.strings
                    /\ heap.array_free = heap.arrays

\* the Strings that hold handle h
Owners(h) == {o \in Names : objects[o].state = "alive" /\ objects[o].handle_ = h}

\* C17 (as claimed): every handle obtained from zstring_init is held by at
\* most one String at a time and is freed once, by the time no String holds
\* it; and no method passes a null or a freed handle to the core.
C17_HandleOwnership ==
    /\ \A h \in Handles :
           /\ Cardinality(Owners(h)) <= 1
           /\ core[h].frees <= 1
           /\ core[h].state = "live" <=> Owners(h) # {}
           /\ core[h].state = "freed" => core[h].frees = 1
    /\ last.fn \in {"zstring_length", "zstring_bytes", "zstring_free"}
           => last.state = "live"

\* C17 (amended): every handle obtained from zstring_init is held by at
\* most one String at a time and is freed once, by the time no String holds
\* it; no method and no zstring_free is passed a freed handle; a method of
\* a moved-from String passes the null handle the move left in it.
C17_Ownership ==
    /\ \A h \in Handles :
           /\ Cardinality(Owners(h)) <= 1
           /\ core[h].frees <= 1
           /\ core[h].state = "live" <=> Owners(h) # {}
           /\ core[h].state = "freed" => core[h].frees = 1
    /\ last.fn = "zstring_free" => last.state = "live"
    /\ last.fn \in {"zstring_length", "zstring_bytes"}
           => \/ last.state = "live"
              \/ /\ last.state = "null"
                 /\ \E o \in Names : objects[o] = [state |-> "alive", handle_ |-> nullptr]

\* a String was moved from, another destroyed, and a handle freed
C17_Witness ==
    /\ \E o \in Names : objects[o] = [state |-> "alive", handle_ |-> nullptr]
    /\ \E o \in Names : objects[o].state = "destroyed"
    /\ \E h \in Handles : core[h].state = "freed" /\ core[h].frees = 1

====
